---- MODULE Spec2Model ----
\* A model of the agent-memory retrieval-and-relationship engine:
\* the record store (memory.py), the relationship graph (graph.py) and the
\* consolidator (consolidate.py).
\*
\* Numbers: salience, distance and relevance are hundredths (0.85 is 85), an
\* edge's confidence is thousandths (0.9 is 900).  Timestamps are whole days;
\* NULL stands for SQL NULL.
\* Texts are sequences of whitespace-separated tokens.
EXTENDS Integers, Sequences, FiniteSets, TLC

\* ---------------------------------------------------------------- bounds
MaxRecords == 3
MaxGraphRecords == 2
MaxTime == 14
MaxSearches == 1
MaxMergePasses == 2
MaxEdgeWrites == 2
MaxLatestEdgeWrites == 1
MaxTieRecords == 6

\* ------------------------------------------------------------- constants
NULL == -1
DEFAULT_LIMIT == 5
DEFAULT_MAX_DEPTH == 10
PRUNE_MIN_AGE_DAYS == 7
PRUNE_MAX_SALIENCE == 40
MERGE_SIMILARITY_THRESHOLD == 85
SIMILARITY_UPDATE_THRESHOLD == 72
SIMILARITY_EXTEND_THRESHOLD == 65
SIMILARITY_DERIVE_THRESHOLD == 45
KEYWORD_DISTANCE == 50

\* ----------------------------------------------------------------- texts
\* A record's content is the name of a text; Words gives its tokens.
Texts == {"price10", "price20", "dog"}
Words(c) ==
    CASE c = "price10" -> <<"the", "price", "is", "$10">>
      [] c = "price20" -> <<"actually", "the", "price", "is", "$20">>
      [] c = "dog" -> <<"lazy", "dog", "sleeping">>
      [] c = "myname" -> <<"my", "name", "is", "Bill">>
      [] c = "Price10" -> <<"The", "price", "is", "$10">>
      [] c = "Bill" -> <<"Bill">>
      [] c = "billprice" -> <<"Bill", "said", "the", "price", "changed">>
      [] c = "billyesterday" -> <<"Bill", "said", "the", "price", "changed", "yesterday">>
      [] c = "long1" -> [k \in 1..9 |-> "words"] \o <<"one">>
      [] c = "long2" -> [k \in 1..9 |-> "words"] \o <<"two">>
      [] c = "paris1" -> <<"Paris", "trip", "is", "in", "May">>
      [] c = "paris2" -> <<"actually", "Paris", "trip", "moved", "to", "June">>
      [] c = "paris3" -> <<"Paris", "hotel", "booked", "near", "station">>
      [] c = "alsobill" -> <<"also", "Bill", "likes", "tea">>
      [] c = "billnow" -> <<"Bill", "now", "said", "the", "price", "is", "$20">>
Saliences == {30, 50}

\* str.lower() of a token
LowerWord(w) ==
    CASE w = "Bill" -> "bill"
      [] w = "Actually" -> "actually"
      [] w = "Important" -> "important"
      [] w = "The" -> "the"
      [] w = "Paris" -> "paris"
      [] w = "May" -> "may"
      [] w = "June" -> "june"
      [] OTHER -> w
Lower(text) == [k \in 1..Len(text) |-> LowerWord(text[k])]

\* vec_distance_cosine between the embeddings of two texts
Dist(a, b) ==
    IF a = b THEN 0
    ELSE IF {a, b} = {"price10", "price20"} THEN 10
    ELSE IF {a, b} = {"price10", "Price10"} THEN 5
    ELSE IF {a, b} = {"Bill", "myname"} THEN 30
    ELSE IF a \in {"billprice", "billyesterday"} /\ b \in {"price10", "price20", "Price10"}
    THEN 20
    ELSE IF a \in {"billprice", "billyesterday"} /\ b = "myname" THEN 40
    ELSE IF b \in {"billprice", "billyesterday"} /\ a \in {"price10", "price20", "Price10"}
    THEN 20
    ELSE IF b \in {"billprice", "billyesterday"} /\ a = "myname" THEN 40
    ELSE 70

VARIABLES
    memories,       \* table memories: id -> row
    next_id,        \* AUTOINCREMENT sequence of memories
    embeddings,     \* table memory_embeddings: the ids that have a row
    edges,          \* table memory_edges: set of rows
    edge_seq,       \* AUTOINCREMENT sequence of memory_edges
    now,            \* the clock read by _now()
    emb_avail,      \* EMBEDDINGS_AVAILABLE
    vec_avail,      \* SQLITE_VEC_AVAILABLE
    identity,       \* table identity: set of rows
    active_context, \* table active_context: set of rows
    returned,       \* history: the ids Memory.search has ever returned
    n_search,       \* number of search calls made
    n_merge,        \* number of merge passes made (each one searches)
    last            \* the last call: its name, arguments, result, log

vars == <<memories, next_id, embeddings, edges, edge_seq, now, emb_avail, vec_avail,
          identity, active_context,
          returned, n_search, n_merge, last>>
store == <<memories, next_id, embeddings, edges, edge_seq>>

NoCall == [op |-> "none", args |-> <<>>, ret |-> <<>>, raised |-> FALSE, log |-> <<>>]
Call(op, args, ret, raised, log) ==
    [op |-> op, args |-> args, ret |-> ret, raised |-> raised, log |-> log]

Init ==
    /\ memories = <<>>
    /\ next_id = 1
    /\ embeddings = {}
    /\ edges = {}
    /\ edge_seq = 1
    /\ now = 0
    /\ identity = {}
    /\ active_context = {}
    /\ emb_avail \in BOOLEAN
    /\ vec_avail \in BOOLEAN
    /\ returned = {}
    /\ n_search = 0
    /\ n_merge = 0
    /\ last = NoCall

\* The clock advances between calls.
Tick(days) ==
    /\ now + days <= MaxTime
    /\ now' = now + days
    /\ last' = Call("tick", <<>>, <<>>, FALSE, <<>>)
    /\ UNCHANGED <<store, emb_avail, vec_avail, identity, active_context, returned, n_search, n_merge>>

\* Memory.add
NewRow(content, salience, t) ==
    [content |-> content, memory_type |-> "fact", layer |-> "archive",
     salience |-> salience,
     created_at |-> t, updated_at |-> t, accessed_at |-> NULL,
     access_count |-> 0, is_latest |-> TRUE, expires_at |-> NULL]

Add(content, salience) ==
    /\ memories' = memories @@ (next_id :> NewRow(content, salience, now))
    /\ next_id' = next_id + 1
    /\ embeddings' = IF emb_avail /\ vec_avail THEN embeddings \cup {next_id} ELSE embeddings
    /\ last' = Call("add", <<content, salience>>, next_id, FALSE, <<>>)
    /\ UNCHANGED <<edges, edge_seq, now, emb_avail, vec_avail, identity, active_context, returned, n_search, n_merge>>

\* ------------------------------------------------------------ Memory.search
\* query LIKE-matches content (LIKE ignores ASCII case): the query is a
\* contiguous run of its tokens
Contains(content, query) ==
    LET c == Lower(Words(content))
        q == Lower(Words(query))
    IN \E i \in 0..(Len(c) - Len(q)) : \A k \in 1..Len(q) : c[i + k] = q[k]

\* _now() has microsecond resolution: of two rows written on the same day the
\* one written later (the larger rowid) carries the later timestamp
FineTime(day, rowid) == day * 1000 + rowid

\* rows in the order the ORDER BY yields them; rows that tie keep scan (rowid) order
RECURSIVE OrderRows(_, _)
OrderRows(S, key) ==
    IF S = {} THEN <<>>
    ELSE LET m == CHOOSE x \in S : \A y \in S :
                      key[x] < key[y] \/ (key[x] = key[y] /\ x <= y)
         IN <<m>> \o OrderRows(S \ {m}, key)

Take(seq, n) == SubSeq(seq, 1, IF Len(seq) < n THEN Len(seq) ELSE n)

\* 'relevance': 1 - row['distance'] if row['distance'] else 0.5
Relevance(distance) == IF distance # 0 THEN 100 - distance ELSE 50

VectorMode == emb_avail /\ vec_avail

\* the rows of a SELECT: <<id, distance>> for the first `limit` ids in key order
Ranked(S, key, distance, limit) ==
    [k \in 1..Len(Take(OrderRows(S, key), limit)) |->
        <<Take(OrderRows(S, key), limit)[k], distance[Take(OrderRows(S, key), limit)[k]]>>]

VectorSelect(S, mems, query, limit) ==
    Ranked(S, [i \in S |-> Dist(mems[i].content, query)],
           [i \in S |-> Dist(mems[i].content, query)], limit)

KeywordSelect(S, mems, limit) ==
    Ranked(S, [i \in S |-> 0 - FineTime(mems[i].created_at, i)],
           [i \in S |-> KEYWORD_DISTANCE], limit)

\* the SELECT of search: <<id, distance>> pairs in result order
SearchSelect(mems, embs, query, limit, min_salience) ==
    IF VectorMode
    THEN VectorSelect({i \in DOMAIN mems \cap embs : mems[i].salience >= min_salience},
                      mems, query, limit)
    ELSE KeywordSelect({i \in DOMAIN mems :
                           Contains(mems[i].content, query) /\ mems[i].salience >= min_salience},
                       mems, limit)

ResultRow(mems, id, distance) ==
    [id |-> id, content |-> mems[id].content, salience |-> mems[id].salience,
     created_at |-> mems[id].created_at, relevance |-> Relevance(distance)]

ResultRows(mems, sel) == [k \in 1..Len(sel) |-> ResultRow(mems, sel[k][1], sel[k][2])]

SearchResults(mems, embs, query, limit, min_salience) ==
    ResultRows(mems, SearchSelect(mems, embs, query, limit, min_salience))

\* Memory._record_access
RecordAccess(mems, id, t) ==
    IF id \in DOMAIN mems
    THEN [mems EXCEPT ![id].accessed_at = t, ![id].access_count = @ + 1]
    ELSE mems

\* access tracking that stops after the first row
RecordAccessFirst(mems, rows, t) ==
    IF rows = <<>> THEN mems ELSE RecordAccess(mems, Head(rows).id, t)

RECURSIVE RecordAccessAll(_, _, _)
RecordAccessAll(mems, rows, t) ==
    IF rows = <<>> THEN mems
    ELSE RecordAccessAll(RecordAccess(mems, Head(rows).id, t), Tail(rows), t)

RowIds(rows) == {rows[k].id : k \in 1..Len(rows)}

SearchReturning(query, limit, min_salience, rows) ==
    /\ n_search < MaxSearches
    /\ n_search' = n_search + 1
    /\ memories' = RecordAccessAll(memories, rows, now)
    /\ returned' = returned \cup RowIds(rows)
    /\ last' = Call("search", <<query, limit, min_salience>>, rows, FALSE, <<>>)
    /\ UNCHANGED <<next_id, embeddings, edges, edge_seq, now, emb_avail, vec_avail, identity, active_context, n_merge>>

Search(query, limit, min_salience) ==
    SearchReturning(query, limit, min_salience,
                    SearchResults(memories, embeddings, query, limit, min_salience))

\* Memory.stats
Stats ==
    /\ last' = Call("stats", <<>>,
                    [memories |-> Cardinality(DOMAIN memories),
                     embeddings_available |-> emb_avail,
                     vector_search_available |-> vec_avail], FALSE, <<>>)
    /\ UNCHANGED <<store, now, emb_avail, vec_avail, identity, active_context, returned, n_search, n_merge>>

\* ------------------------------------------- identity and active context
\* INSERT OR REPLACE on a table whose primary key is `key`
Upsert(rows, key, value, t) ==
    {r \in rows : r.key # key} \cup {[key |-> key, value |-> value, updated_at |-> t]}

\* the dict a get builds from the selected rows
Entries(rows) == {<<r.key, r.value>> : r \in rows}

\* 'if key:' in get_identity and get_active: None and '' are both false
Truthy(given, key) == given /\ key # ""

\* SELECT key, value ... WHERE key = ? when the key is truthy, the whole table otherwise
Selected(rows, given, key) ==
    IF Truthy(given, key) THEN {r \in rows : r.key = key} ELSE rows

SetIdentity(key, value) ==
    /\ identity' = Upsert(identity, key, value, now)
    /\ last' = Call("set_identity", [key |-> key, value |-> value], <<>>, FALSE, <<>>)
    /\ UNCHANGED <<store, now, emb_avail, vec_avail, active_context, returned,
                   n_search, n_merge>>

SetActive(key, value) ==
    /\ active_context' = Upsert(active_context, key, value, now)
    /\ last' = Call("set_active", [key |-> key, value |-> value], <<>>, FALSE, <<>>)
    /\ UNCHANGED <<store, now, emb_avail, vec_avail, identity, returned,
                   n_search, n_merge>>

\* get_identity(key) when given, get_identity() otherwise
GetIdentity(given, key) ==
    /\ last' = Call("get_identity", [given |-> given, key |-> key],
                    Entries(Selected(identity, given, key)), FALSE, <<>>)
    /\ UNCHANGED <<store, now, emb_avail, vec_avail, identity, active_context,
                   returned, n_search, n_merge>>

GetActive(given, key) ==
    /\ last' = Call("get_active", [given |-> given, key |-> key],
                    Entries(Selected(active_context, given, key)), FALSE, <<>>)
    /\ UNCHANGED <<store, now, emb_avail, vec_avail, identity, active_context,
                   returned, n_search, n_merge>>

\* ------------------------------------------------- MemoryConsolidator
Remove(mems, ids) == [i \in DOMAIN mems \ ids |-> mems[i]]

\* a WHERE clause without the age condition
PruneCandidatesAnyAge(mems, t) ==
    {i \in DOMAIN mems :
        /\ mems[i].salience < PRUNE_MAX_SALIENCE
        /\ mems[i].access_count = 0
        /\ mems[i].layer = "archive"}

\* the WHERE clause of _prune_memories
PruneCandidates(mems, t) ==
    {i \in DOMAIN mems :
        /\ mems[i].salience < PRUNE_MAX_SALIENCE
        /\ mems[i].created_at < t - PRUNE_MIN_AGE_DAYS
        /\ mems[i].access_count = 0
        /\ mems[i].layer = "archive"}

\* _prune_memories: the DELETE on memory_embeddings fails when the table is missing
PruneDelete(mems, embs, cand, dry_run) ==
    IF dry_run \/ cand = {}
    THEN [mems |-> mems, embs |-> embs, count |-> Cardinality(cand),
          ids |-> {}, raised |-> FALSE]
    ELSE IF ~vec_avail
    THEN [mems |-> mems, embs |-> embs, count |-> 0, ids |-> {}, raised |-> TRUE]
    ELSE [mems |-> Remove(mems, cand), embs |-> embs \ cand,
          count |-> Cardinality(cand), ids |-> cand, raised |-> FALSE]

PruneMemories(mems, embs, t, dry_run) ==
    PruneDelete(mems, embs, PruneCandidates(mems, t), dry_run)

\* the rows _merge_similar selects: archive rows with an embedding, newest first
MergeRowsOf(mems, ord) ==
    [k \in 1..Len(ord) |->
        [id |-> ord[k], content |-> mems[ord[k]].content, salience |-> mems[ord[k]].salience]]

MergeOrder(S, mems) == OrderRows(S, [i \in S |-> 0 - FineTime(mems[i].created_at, i)])

MergeRows(mems, embs) ==
    MergeRowsOf(mems, MergeOrder({i \in DOMAIN mems \cap embs : mems[i].layer = "archive"}, mems))

\* the record of one merge: the ids chosen, the pair, and what the store held
MergeEvent(accessed, mem1, mem2, keep_id, remove_id, relevance, dry_run) ==
    [keep_id |-> keep_id, remove_id |-> remove_id,
     mem1 |-> mem1.id, mem2 |-> mem2.id,
     keep_salience |-> IF keep_id = mem1.id THEN mem1.salience ELSE mem2.salience,
     remove_salience |-> IF remove_id = mem1.id THEN mem1.salience ELSE mem2.salience,
     relevance |-> relevance,
     keep_present |-> keep_id \in DOMAIN accessed,
     remove_present |-> remove_id \in DOMAIN accessed,
     keep_count_before |-> IF keep_id \in DOMAIN accessed
                           THEN accessed[keep_id].access_count ELSE NULL,
     keep_count_after |-> IF keep_id \notin DOMAIN accessed THEN NULL
                          ELSE IF dry_run THEN accessed[keep_id].access_count
                          ELSE accessed[keep_id].access_count + 1]

\* the UPDATE of the kept row
KeepRow(accessed, keep_id, t) ==
    IF keep_id \in DOMAIN accessed
    THEN [accessed EXCEPT ![keep_id].access_count = @ + 1, ![keep_id].updated_at = t]
    ELSE accessed

\* Memory._record_access commits after each row a search returns, and with it
\* whatever the connection has pending: the store another connection sees then
CommitsAfterSearch(ms, rows) ==
    IF rows = <<>> THEN ms.commits
    ELSE Append(ms.commits, [ids |-> DOMAIN ms.mems, embs |-> ms.embs])

\* a match: keep the higher-salience row (mem1 on a tie), delete the other
MergeMatch(ms, mem1, mem2, t, dry_run, rows, accessed, keep_id, remove_id) ==
    [mems |-> IF dry_run THEN accessed ELSE Remove(KeepRow(accessed, keep_id, t), {remove_id}),
     embs |-> IF dry_run THEN ms.embs ELSE ms.embs \ {remove_id},
     merged_ids |-> ms.merged_ids \cup {remove_id},
     count |-> ms.count + 1,
     events |-> Append(ms.events,
                  MergeEvent(accessed, mem1, mem2, keep_id, remove_id,
                      rows[CHOOSE k \in 1..Len(rows) : rows[k].id = mem2.id].relevance,
                      dry_run)),
     returned |-> ms.returned \cup RowIds(rows),
     commits |-> CommitsAfterSearch(ms, rows)]

\* the loop over the rows the search returned
MergeOver(ms, mem1, mem2, t, dry_run, rows, accessed) ==
    IF \E k \in 1..Len(rows) :
          rows[k].id = mem2.id /\ rows[k].relevance > MERGE_SIMILARITY_THRESHOLD
    THEN IF mem1.salience >= mem2.salience
         THEN MergeMatch(ms, mem1, mem2, t, dry_run, rows, accessed, mem1.id, mem2.id)
         ELSE MergeMatch(ms, mem1, mem2, t, dry_run, rows, accessed, mem2.id, mem1.id)
    ELSE [ms EXCEPT !.mems = accessed, !.returned = @ \cup RowIds(rows),
                    !.commits = CommitsAfterSearch(ms, rows)]

MergeSearched(ms, mem1, mem2, t, dry_run, rows) ==
    MergeOver(ms, mem1, mem2, t, dry_run, rows, RecordAccessAll(ms.mems, rows, t))

\* one comparison of the pair (mem1, mem2): the search and, on a match, the merge
MergePair(ms, mem1, mem2, t, dry_run) ==
    MergeSearched(ms, mem1, mem2, t, dry_run,
                  SearchResults(ms.mems, ms.embs, mem1.content, DEFAULT_LIMIT, 0))

\* the two nested loops of _merge_similar over the selected rows
RECURSIVE MergeScan(_, _, _, _, _, _)
MergeScan(ms, rows, i, j, t, dry_run) ==
    IF i > Len(rows) THEN ms
    ELSE IF j = i + 1 /\ rows[i].id \in ms.merged_ids
    THEN MergeScan(ms, rows, i + 1, i + 2, t, dry_run)
    ELSE IF j > Len(rows) THEN MergeScan(ms, rows, i + 1, i + 2, t, dry_run)
    ELSE IF rows[j].id \in ms.merged_ids THEN MergeScan(ms, rows, i, j + 1, t, dry_run)
    ELSE MergeScan(MergePair(ms, rows[i], rows[j], t, dry_run), rows, i, j + 1, t, dry_run)

MergeStart(mems, embs) ==
    [mems |-> mems, embs |-> embs, merged_ids |-> {}, count |-> 0,
     events |-> <<>>, returned |-> {}, commits |-> <<>>]

MergeFrom(start, rows, t, dry_run) ==
    IF Len(rows) < 2 THEN start ELSE MergeScan(start, rows, 1, 2, t, dry_run)

\* _merge_similar: the SELECT joins memory_embeddings and fails when the table is
\* missing (count = NULL)
MergeSimilar(mems, embs, t, dry_run) ==
    IF ~vec_avail THEN [MergeStart(mems, embs) EXCEPT !.count = NULL]
    ELSE MergeFrom(MergeStart(mems, embs), MergeRows(mems, embs), t, dry_run)

NoPrune(mems, embs) ==
    [mems |-> mems, embs |-> embs, count |-> 0, ids |-> {}, raised |-> FALSE]

ConsolidateReport(mems, p, m) ==
    [mems |-> m.mems, embs |-> m.embs, raised |-> p.raised \/ m.count = NULL,
     ret |-> IF p.raised \/ m.count = NULL THEN <<>>
             ELSE [memories_before |-> Cardinality(DOMAIN mems),
                   memories_after |-> Cardinality(DOMAIN m.mems),
                   pruned |-> p.count, merged |-> m.count],
     log |-> [pruned_ids |-> p.ids, events |-> m.events, returned |-> m.returned,
              commits |-> m.commits]]

ConsolidateMerge(mems, p, t, merge, dry_run) ==
    ConsolidateReport(mems, p,
        IF merge /\ ~p.raised THEN MergeSimilar(p.mems, p.embs, t, dry_run)
        ELSE MergeStart(p.mems, p.embs))

\* MemoryConsolidator.consolidate: prune, then merge
ConsolidateResult(mems, embs, t, prune, merge, dry_run) ==
    ConsolidateMerge(mems,
        IF prune THEN PruneMemories(mems, embs, t, dry_run) ELSE NoPrune(mems, embs),
        t, merge, dry_run)

ConsolidateReturning(prune, merge, dry_run, r) ==
    /\ merge => n_merge < MaxMergePasses
    /\ n_merge' = IF merge THEN n_merge + 1 ELSE n_merge
    /\ memories' = r.mems
    /\ embeddings' = r.embs
    /\ returned' = returned \cup r.log.returned
    /\ last' = Call("consolidate",
                    [prune |-> prune, merge |-> merge, dry_run |-> dry_run],
                    r.ret, r.raised, r.log)
    /\ UNCHANGED <<next_id, edges, edge_seq, now, emb_avail, vec_avail, identity, active_context, n_search>>

Consolidate(prune, merge, dry_run) ==
    ConsolidateReturning(prune, merge, dry_run,
        ConsolidateResult(memories, embeddings, now, prune, merge, dry_run))

\* ------------------------------------------------------------ GraphMemory
WordSet(text) == {text[k] : k \in 1..Len(text)}
FirstWords(text, n) == {text[k] : k \in 1..(IF Len(text) < n THEN Len(text) ELSE n)}
Max(a, b) == IF a > b THEN a ELSE b
Min(a, b) == IF a < b THEN a ELSE b

RECURSIVE CharLen(_)
CharLen(text) ==
    IF text = <<>> THEN 0
    ELSE Len(Head(text)) + (IF Len(text) > 1 THEN 1 ELSE 0) + CharLen(Tail(text))

\* re.search of an alternation of words and phrases, each between word boundaries
HasPhrase(text, phrase) ==
    \E i \in 0..(Len(text) - Len(phrase)) : \A k \in 1..Len(phrase) : text[i + k] = phrase[k]
MatchesAny(text, phrases) == \E ph \in phrases : HasPhrase(text, ph)

ContradictionPhrases ==
    {<<"actually">>, <<"no", "longer">>, <<"not">>, <<"isn't">>, <<"wasn't">>,
     <<"changed", "to">>, <<"moved", "to">>, <<"switched", "to">>, <<"now">>,
     <<"instead", "of">>, <<"rather", "than">>, <<"correcting">>, <<"correction">>,
     <<"update">>, <<"updated">>, <<"updates">>,
     <<"used", "to">>, <<"previously">>, <<"formerly">>, <<"was">>, <<"were">>}
ExtensionPhrases ==
    {<<"also">>, <<"additionally">>, <<"furthermore">>, <<"moreover">>, <<"plus">>,
     <<"specifically">>, <<"in", "particular">>, <<"for", "example">>, <<"e.g.">>,
     <<"details">>, <<"more", "about">>, <<"expanding", "on">>}
KnownEntities == {<<"bill">>, <<"alex">>, <<"the", "project">>, <<"the", "app">>, <<"capybot">>}
NumberTokens == {"$10", "$20"}
CapitalizedTokens == {"Bill", "Actually", "Important", "The", "Paris", "May", "June"}

\* _has_contradiction_signals (both texts arrive lower-cased)
HasContradictionSignals(new, existing) ==
    LET new_words == FirstWords(new, 8)
        existing_words == FirstWords(existing, 8)
        shared == Cardinality(new_words \cap existing_words)
        denom == Max(Cardinality(new_words), 1)
        numbers_new == WordSet(new) \cap NumberTokens
        numbers_existing == WordSet(existing) \cap NumberTokens
    IN \/ MatchesAny(new, ContradictionPhrases) /\ 10 * shared > 3 * denom
       \/ /\ numbers_new # {} /\ numbers_existing # {} /\ numbers_new # numbers_existing
          /\ 10 * shared > 4 * denom

\* _has_extension_signals
HasExtensionSignals(new, existing) == MatchesAny(new, ExtensionPhrases)

\* _shares_subject: the capitalized words of the text as it is given and the
\* known subjects of the text in lower case
ExtractEntities(text) ==
    {<<w>> : w \in WordSet(text) \cap CapitalizedTokens}
        \cup {ph \in KnownEntities : HasPhrase(Lower(text), ph)}
SharesSubject(new, existing) == ExtractEntities(new) \cap ExtractEntities(existing) # {}

\* _has_new_information
HasNewInformation(new, existing) ==
    10 * Cardinality(WordSet(new) \ WordSet(existing)) > 3 * Max(Cardinality(WordSet(new)), 1)

\* _has_inferrable_connection
HasInferrableConnection(new, existing) ==
    LET inter == Cardinality(WordSet(new) \cap WordSet(existing))
        denom == Max(Min(Cardinality(WordSet(new)), Cardinality(WordSet(existing))), 1)
    IN 100 * inter > 15 * denom /\ 100 * inter < 50 * denom

\* _classify_relationship; "none" stands for None
ClassifyRelationship(new, existing, similarity) ==
    LET new_lower == Lower(new)
        existing_lower == Lower(existing)
    IN IF /\ similarity >= SIMILARITY_UPDATE_THRESHOLD
          /\ HasContradictionSignals(new_lower, existing_lower)
       THEN "updates"
       ELSE IF /\ similarity >= SIMILARITY_UPDATE_THRESHOLD
               /\ similarity >= 85 /\ 2 * CharLen(new) > CharLen(existing)
       THEN "extends"
       ELSE IF /\ similarity >= SIMILARITY_EXTEND_THRESHOLD
               /\ HasContradictionSignals(new_lower, existing_lower)
               /\ SharesSubject(new_lower, existing_lower)
       THEN "updates"
       ELSE IF /\ similarity >= SIMILARITY_EXTEND_THRESHOLD
               /\ HasExtensionSignals(new_lower, existing_lower)
       THEN "extends"
       ELSE IF /\ similarity >= SIMILARITY_EXTEND_THRESHOLD
               /\ SharesSubject(new_lower, existing_lower)
               /\ HasNewInformation(new_lower, existing_lower)
       THEN "extends"
       ELSE IF /\ SIMILARITY_DERIVE_THRESHOLD <= similarity
               /\ similarity < SIMILARITY_EXTEND_THRESHOLD
               /\ HasInferrableConnection(new_lower, existing_lower)
       THEN "derives"
       ELSE "none"

\* a classification whose derive threshold is exclusive
ClassifyRelationshipAbove(new, existing, similarity) ==
    IF similarity = SIMILARITY_DERIVE_THRESHOLD
    THEN "none"
    ELSE ClassifyRelationship(Words(new), Words(existing), similarity)

\* the relation _classify_relationship returns for a pair of stored texts
RelationOf(new, existing, similarity) ==
    ClassifyRelationship(Words(new), Words(existing), similarity)

ClassifyRelationshipCall(new, existing, similarity) ==
    /\ last' = Call("classify_relationship", <<new, existing, similarity>>,
                    RelationOf(new, existing, similarity),
                    FALSE, <<>>)
    /\ UNCHANGED <<store, now, emb_avail, vec_avail, identity, active_context,
                   returned, n_search, n_merge>>

\* _compute_confidence, in thousandths (the result is rounded to 3 decimals)
ComputeConfidence(relation, similarity, new, existing) ==
    LET base == 10 * similarity
        n == Lower(new)
    IN IF relation = "updates"
       THEN IF MatchesAny(n, {<<"actually">>, <<"no", "longer">>, <<"changed">>, <<"correction">>})
            THEN Min(base + 150, 1000) ELSE base
       ELSE IF relation = "extends"
       THEN IF MatchesAny(n, {<<"also">>, <<"additionally">>, <<"specifically">>})
            THEN Min(base + 100, 1000) ELSE base
       ELSE IF relation = "derives" THEN 7 * similarity
       ELSE base

\* detect_relationships over the rows of a search for the new content
RECURSIVE DetectOver(_, _, _)
DetectOver(new_memory_id, new_content, similar) ==
    IF similar = <<>> THEN <<>>
    ELSE LET existing == Head(similar)
             relation == ClassifyRelationship(Words(new_content), Words(existing.content),
                                              existing.relevance)
             rest == DetectOver(new_memory_id, new_content, Tail(similar))
         IN IF existing.id = new_memory_id \/ relation = "none" THEN rest
            ELSE <<[source_id |-> new_memory_id, target_id |-> existing.id,
                    relation |-> relation,
                    confidence |-> ComputeConfidence(relation, existing.relevance,
                                        Words(new_content), Words(existing.content))]>> \o rest

DetectRelationships(new_memory_id, new_content, similar_memories) ==
    /\ last' = Call("detect_relationships",
                    <<new_memory_id, new_content,
                      [k \in 1..Len(similar_memories) |-> similar_memories[k].id]>>,
                    DetectOver(new_memory_id, new_content, similar_memories), FALSE, <<>>)
    /\ UNCHANGED <<store, now, emb_avail, vec_avail, identity, active_context, returned, n_search, n_merge>>

\* add_edge: INSERT OR REPLACE on UNIQUE(source_id, target_id, relation), then
\* the is_latest flip, committed together
SameTriple(e, source_id, target_id, relation) ==
    e.source_id = source_id /\ e.target_id = target_id /\ e.relation = relation

\* json.dumps(metadata) if metadata else None: the column's text, "null" for NULL
EncodeMetadata(metadata) == IF metadata = "none" THEN "null" ELSE metadata

EdgeRow(rowid, source_id, target_id, relation, confidence, metadata, t) ==
    [id |-> rowid, source_id |-> source_id, target_id |-> target_id,
     relation |-> relation, confidence |-> confidence,
     metadata |-> EncodeMetadata(metadata), created_at |-> t]

\* a plain INSERT, which keeps the row already stored for the triple
EdgesAfterInsert(es, row) == es \cup {row}

EdgesAfterAdd(es, row) ==
    {e \in es : ~SameTriple(e, row.source_id, row.target_id, row.relation)} \cup {row}

AddEdge(source_id, target_id, relation, confidence, metadata) ==
    /\ edges' = EdgesAfterAdd(edges, EdgeRow(edge_seq, source_id, target_id, relation,
                                             confidence, metadata, now))
    /\ edge_seq' = edge_seq + 1
    /\ memories' = IF relation = "updates" /\ target_id \in DOMAIN memories
                   THEN [memories EXCEPT ![target_id].is_latest = FALSE]
                   ELSE memories
    /\ last' = Call("add_edge", <<source_id, target_id, relation, confidence, metadata>>,
                    edge_seq, FALSE,
                    [replaced |-> {e \in edges : SameTriple(e, source_id, target_id, relation)}])
    /\ UNCHANGED <<next_id, embeddings, now, emb_avail, vec_avail, identity, active_context, returned, n_search, n_merge>>

\* a set_expiry that makes the record latest again when the time is still to come
SetExpiryRevives(memory_id, expires_at) ==
    /\ memories' = IF memory_id \in DOMAIN memories
                   THEN [memories EXCEPT ![memory_id].expires_at = expires_at,
                                         ![memory_id].is_latest = @ \/ expires_at > now]
                   ELSE memories
    /\ last' = Call("set_expiry", <<memory_id, expires_at>>, <<>>, FALSE, <<>>)
    /\ UNCHANGED <<next_id, embeddings, edges, edge_seq, now, emb_avail, vec_avail, identity, active_context,
                   returned, n_search, n_merge>>

\* set_expiry
SetExpiry(memory_id, expires_at) ==
    /\ memories' = IF memory_id \in DOMAIN memories
                   THEN [memories EXCEPT ![memory_id].expires_at = expires_at]
                   ELSE memories
    /\ last' = Call("set_expiry", <<memory_id, expires_at>>, <<>>, FALSE, <<>>)
    /\ UNCHANGED <<next_id, embeddings, edges, edge_seq, now, emb_avail, vec_avail, identity, active_context,
                   returned, n_search, n_merge>>

\* an expiry test that does not require expires_at to be set
ExpiredIgnoringNull(mems, t) ==
    {i \in DOMAIN mems : mems[i].expires_at < t /\ mems[i].is_latest}

\* an expiry test that does not require the record to be latest still
ExpiredAlsoSuperseded(mems, t) ==
    {i \in DOMAIN mems : mems[i].expires_at # NULL /\ mems[i].expires_at < t}

\* expire_memories
Expired(mems, t) ==
    {i \in DOMAIN mems :
        mems[i].expires_at # NULL /\ mems[i].expires_at < t /\ mems[i].is_latest}

ExpireMemories ==
    LET ids == Expired(memories, now)
    IN /\ memories' = [i \in DOMAIN memories |->
                          IF i \in ids THEN [memories[i] EXCEPT !.is_latest = FALSE]
                          ELSE memories[i]]
       /\ last' = Call("expire_memories", <<>>, Cardinality(ids), FALSE, <<>>)
       /\ UNCHANGED <<next_id, embeddings, edges, edge_seq, now, emb_avail, vec_avail, identity, active_context,
                      returned, n_search, n_merge>>

\* get_memory_chain: the loop with `left` iterations to go. The query takes
\* one edge (LIMIT 1, no ORDER BY) out of those that leave the current id.
RECURSIVE ChainWalk(_, _, _, _)
ChainWalk(es, chain, relation, left) ==
    LET targets == {e.target_id : e \in {x \in es : /\ x.source_id = chain[Len(chain)]
                                                      /\ x.relation = relation}}
    IN IF left = 0 \/ targets = {} THEN {chain}
       ELSE UNION {ChainWalk(es, Append(chain, t), relation, left - 1) : t \in targets}

\* a walk that makes one iteration more than max_depth
MemoryChainsOneMore(es, memory_id, relation, max_depth) ==
    ChainWalk(es, <<memory_id>>, relation, max_depth + 1)

MemoryChains(es, memory_id, relation, max_depth) ==
    ChainWalk(es, <<memory_id>>, relation, max_depth)

GetMemoryChain(memory_id, relation, max_depth) ==
    /\ \E chain \in MemoryChains(edges, memory_id, relation, max_depth) :
          last' = Call("get_memory_chain",
                       [memory_id |-> memory_id, relation |-> relation,
                        max_depth |-> max_depth], chain, FALSE, <<>>)
    /\ UNCHANGED <<memories, next_id, embeddings, edges, edge_seq, now, emb_avail,
                   vec_avail, identity, active_context, returned, n_search, n_merge>>

\* _get_extensions: ids of the memories that extend memory_id, by confidence DESC
GetExtensions(mems, es, memory_id) ==
    LET E == {e \in es : e.target_id = memory_id /\ e.relation = "extends"
                          /\ e.source_id \in DOMAIN mems}
        S == {e.id : e \in E}
        key == [r \in S |-> 0 - (CHOOSE e \in E : e.id = r).confidence]
        ord == OrderRows(S, key)
    IN [k \in 1..Len(ord) |-> (CHOOSE e \in E : e.id = ord[k]).source_id]

\* the source of the most recent updates edge into mem_id, NULL when there is none
LatestUpdater(es, mem_id) ==
    LET U == {e \in es : e.target_id = mem_id /\ e.relation = "updates"}
    IN IF U = {} THEN NULL
       ELSE (CHOOSE e \in U : \A f \in U :
                FineTime(e.created_at, e.id) >= FineTime(f.created_at, f.id)).source_id

\* the loop of search_with_graph; acc = [seen, enhanced]
RECURSIVE GraphScan(_, _, _, _, _, _)
GraphScan(mems, es, rest, acc, follow_extends, prefer_latest) ==
    IF rest = <<>> THEN acc.enhanced
    ELSE LET result == Head(rest)
             mem_id == result.id
             seen1 == acc.seen \cup {mem_id}
             stale == prefer_latest /\ mem_id \in DOMAIN mems /\ ~mems[mem_id].is_latest
             latest_id == LatestUpdater(es, mem_id)
             replace == stale /\ latest_id # NULL /\ latest_id \in DOMAIN mems
                              /\ latest_id \notin seen1
             row == IF replace
                    THEN [id |-> latest_id, content |-> mems[latest_id].content,
                          salience |-> mems[latest_id].salience,
                          created_at |-> mems[latest_id].created_at,
                          relevance |-> result.relevance, supersedes |-> mem_id,
                          extensions |-> <<>>]
                    ELSE [id |-> mem_id, content |-> result.content,
                          salience |-> result.salience, created_at |-> result.created_at,
                          relevance |-> result.relevance, supersedes |-> NULL,
                          extensions |-> <<>>]
             out == IF follow_extends
                    THEN [row EXCEPT !.extensions = GetExtensions(mems, es, mem_id)]
                    ELSE row
         IN IF mem_id \in acc.seen
            THEN GraphScan(mems, es, Tail(rest), acc, follow_extends, prefer_latest)
            ELSE IF stale /\ latest_id = NULL
            THEN GraphScan(mems, es, Tail(rest), [acc EXCEPT !.seen = seen1],
                           follow_extends, prefer_latest)
            ELSE GraphScan(mems, es, Tail(rest),
                           [seen |-> IF replace THEN seen1 \cup {latest_id} ELSE seen1,
                            enhanced |-> Append(acc.enhanced, out)],
                           follow_extends, prefer_latest)

SearchWithGraphResult(mems, es, base_results, follow_extends, prefer_latest) ==
    GraphScan(mems, es, base_results, [seen |-> {}, enhanced |-> <<>>],
              follow_extends, prefer_latest)

\* candidate lists: rows for one or two ids of the store, in any order
BaseLists(mems) ==
    {<<ResultRow(mems, i, KEYWORD_DISTANCE)>> : i \in DOMAIN mems}
        \cup {<<ResultRow(mems, p[1], KEYWORD_DISTANCE), ResultRow(mems, p[2], KEYWORD_DISTANCE)>> :
                 p \in (DOMAIN mems) \X (DOMAIN mems)}

SearchWithGraph(base_results, follow_extends, prefer_latest) ==
    /\ last' = Call("search_with_graph",
                    <<[k \in 1..Len(base_results) |-> base_results[k].id],
                      follow_extends, prefer_latest>>,
                    SearchWithGraphResult(memories, edges, base_results,
                                          follow_extends, prefer_latest),
                    FALSE, <<>>)
    /\ UNCHANGED <<store, now, emb_avail, vec_avail, identity, active_context, returned, n_search, n_merge>>

\* -------------------------------------------------------------- classify
\* The patterns are matched on tokens; the texts of the model carry no
\* punctuation and no token that holds a keyword inside a longer word.
YearTokens == {"1999", "2024"}
EmancipatTokens == {"emancipated", "emancipation"}
ProjectTokens == {"project", "projects"}
BillTopics == {"telegram", "github", "twitter", "prefers", "likes", "wants"}

\* re.search of  \bword\b.*(one of later) : the word, then one of `later` further on
ThenLater(lower, word, later) ==
    \E k \in 1..Len(lower) : /\ lower[k] = word
                              /\ \E l \in (k + 1)..Len(lower) : lower[l] \in later

\* re.search of  \bword[:\s] : the word followed by a colon or by white space
ThenSeparator(lower, word, with_colon) ==
    \/ \E k \in 1..(Len(lower) - 1) : lower[k] = word
    \/ with_colon \in WordSet(lower)

IdentityPattern(p, lower) ==
    CASE p = 1 -> HasPhrase(lower, <<"my", "name">>)
      [] p = 2 -> HasPhrase(lower, <<"i", "am">>)
      [] p = 3 -> HasPhrase(lower, <<"who", "i", "am">>)
      [] p = 4 -> ThenLater(lower, "born", YearTokens)
      [] p = 5 -> ThenLater(lower, "created", YearTokens)
      [] p = 6 -> ThenSeparator(lower, "human", "human:")
      [] p = 7 -> ThenSeparator(lower, "owner", "owner:")
      [] p = 8 -> ThenLater(lower, "bill", BillTopics)
      [] p = 9 -> HasPhrase(lower, <<"identity">>)
      [] p = 10 -> HasPhrase(lower, <<"personality">>)
      [] p = 11 -> \E w \in {"value", "values", "trait", "traits", "belief", "beliefs"} :
                      HasPhrase(lower, <<"core", w>>)
      [] p = 12 -> WordSet(lower) \cap EmancipatTokens # {}
      [] p = 13 -> HasPhrase(lower, <<"soul.md">>)
      [] p = 14 -> \E w \in {"prefer", "believe", "value", "always"} :
                      HasPhrase(lower, <<"i", w>>)
      [] p = 15 -> \E w \in {"human", "creator", "partner"} : HasPhrase(lower, <<"my", w>>)

ActivePattern(p, lower) ==
    CASE p = 1 -> WordSet(lower) \cap {"current", "currently"} # {}
      [] p = 2 -> HasPhrase(lower, <<"working", "on">>)
      [] p = 3 -> HasPhrase(lower, <<"right", "now">>)
      [] p = 4 -> HasPhrase(lower, <<"today">>)
      [] p = 5 -> \E w \in {"week", "session", "sprint"} : HasPhrase(lower, <<"this", w>>)
      [] p = 6 -> HasPhrase(lower, <<"next", "step">>)
      [] p = 7 -> HasPhrase(lower, <<"todo">>)
      [] p = 8 -> HasPhrase(lower, <<"in", "progress">>)
      [] p = 9 -> ThenLater(lower, "active", ProjectTokens)
      [] p = 10 -> HasPhrase(lower, <<"blocked">>)
      [] p = 11 -> \E w \in {"on", "for"} : HasPhrase(lower, <<"waiting", w>>)
      [] p = 12 -> \E w \in {"shipped", "pushed", "deployed", "built", "created"} :
                      HasPhrase(lower, <<"just", w>>)
      [] p = 13 -> HasPhrase(lower, <<"new", "directive">>)
      [] p = 14 -> \E w \in {"said", "asked", "wants", "told"} : HasPhrase(lower, <<"bill", w>>)

IdentityHint(memory_type) ==
    IF memory_type \in {"identity", "core", "self"} THEN 3
    ELSE IF memory_type \in {"task", "project", "active", "current"} THEN 0
    ELSE IF memory_type = "preference" THEN 1 ELSE 0

ActiveHint(memory_type) ==
    IF memory_type \in {"identity", "core", "self"} THEN 0
    ELSE IF memory_type \in {"task", "project", "active", "current"} THEN 3
    ELSE IF memory_type = "preference" THEN 0
    ELSE IF memory_type = "decision" THEN 1 ELSE 0

LayerOfScores(identity_score, active_score) ==
    IF identity_score >= 2 THEN "identity"
    ELSE IF active_score >= 2 THEN "active"
    ELSE IF identity_score = 1 /\ active_score = 0 THEN "identity"
    ELSE IF active_score = 1 /\ identity_score = 0 THEN "active"
    ELSE "archive"

\* classify_layer; memory_type "none" stands for None
ClassifyLayer(content, memory_type) ==
    LayerOfScores(
        Cardinality({p \in 1..15 : IdentityPattern(p, Lower(content))})
            + IdentityHint(memory_type),
        Cardinality({p \in 1..14 : ActivePattern(p, Lower(content))})
            + ActiveHint(memory_type))

HIGH_SALIENCE_KEYWORDS ==
    {"decision", "decided", "important", "critical", "never", "always",
     "lesson", "learned", "mistake", "breakthrough", "preference",
     "correction", "emancipat", "directive", "rule", "principle"}

\* 'kw in lower'
KeywordIn(kw, lower) ==
    \/ kw \in WordSet(lower)
    \/ kw = "emancipat" /\ WordSet(lower) \cap EmancipatTokens # {}

KEYWORD_BOOST == 10
LENGTH_BOOST == 5

TypeBoost(memory_type) ==
    CASE memory_type = "decision" -> 20
      [] memory_type = "preference" -> 15
      [] memory_type = "identity" -> 25
      [] memory_type = "correction" -> 20
      [] memory_type = "insight" -> 15
      [] memory_type = "error" -> 10
      [] OTHER -> 0

WordBoost(word_count) ==
    (IF word_count > 30 THEN LENGTH_BOOST ELSE 0)
        + (IF word_count > 60 THEN LENGTH_BOOST ELSE 0)

\* estimate_salience: the boosts on top of base_salience, then min(1.0, .)
EstimateSalience(content, memory_type, base_salience) ==
    Min(100, base_salience
                + KEYWORD_BOOST * Cardinality({kw \in HIGH_SALIENCE_KEYWORDS :
                                                 KeywordIn(kw, Lower(content))})
                + TypeBoost(memory_type)
                + WordBoost(Len(content)))

\* classify_and_score
ClassifyAndScore(content, memory_type, base_salience) ==
    [layer |-> ClassifyLayer(content, memory_type),
     salience |-> EstimateSalience(content, memory_type, base_salience)]

EstimateSalienceCall(content, memory_type, base_salience) ==
    /\ last' = Call("estimate_salience", <<content, memory_type, base_salience>>,
                    EstimateSalience(content, memory_type, base_salience), FALSE, <<>>)
    /\ UNCHANGED <<store, now, emb_avail, vec_avail, identity, active_context,
                   returned, n_search, n_merge>>

ClassifyAndScoreCall(content, memory_type, base_salience) ==
    /\ last' = Call("classify_and_score", <<content, memory_type, base_salience>>,
                    ClassifyAndScore(content, memory_type, base_salience), FALSE, <<>>)
    /\ UNCHANGED <<store, now, emb_avail, vec_avail, identity, active_context,
                   returned, n_search, n_merge>>

\* ------------------------------------------------------------- front ends
\* the capture tool of the MCP server and the positional capture of the CLI:
\* mem.add(content, memory_type=memory_type, salience=salience). The INSERT of
\* Memory.add names no layer, so the row gets the column default.
Capture(content, memory_type, salience) ==
    /\ memories' = memories @@
          (next_id :> [NewRow(content, salience, now) EXCEPT !.memory_type = memory_type])
    /\ next_id' = next_id + 1
    /\ embeddings' = IF emb_avail /\ vec_avail THEN embeddings \cup {next_id} ELSE embeddings
    /\ last' = Call("capture", <<content, memory_type, salience>>, <<>>, FALSE, <<>>)
    /\ UNCHANGED <<edges, edge_seq, now, emb_avail, vec_avail, identity, active_context,
                   returned, n_search, n_merge>>

\* --------------------------------------------------------- MemorySurfacer
ENTITY_MIN_RELEVANCE == 40
ENTITY_CONFIDENCE == 85
ENTITY_SEARCH_LIMIT == 2
SEMANTIC_MIN_RELEVANCE == 55
SEMANTIC_CONFIDENCE == 65
TEMPORAL_RELEVANCE == 50
TEMPORAL_CONFIDENCE == 40
DEFAULT_MIN_CONFIDENCE == 30
CONTENT_KEY_LENGTH == 50

\* [A-Z][a-z]+ as a whole token
SurfaceCapitalized == {"Bill", "Actually", "The", "Important"}

\* PERSON_PATTERNS on tokens: a capitalized token after with/from/to/by, or
\* before said/wants/asks/..., or before is/are/was/were/and. No text of the
\* model holds an @mention or a quoted part.
PeopleOf(text) ==
    {text[k + 1] : k \in {j \in 1..(Len(text) - 1) :
                            /\ text[j] \in {"with", "from", "to", "by"}
                            /\ text[j + 1] \in SurfaceCapitalized}}
    \cup {text[k] : k \in {j \in 1..(Len(text) - 1) :
                            /\ text[j] \in SurfaceCapitalized
                            /\ text[j + 1] \in {"said", "wants", "asks", "asked", "mentioned",
                                                "prefers", "did", "is", "are", "was", "were",
                                                "and"}}}

\* PROJECT_PATTERNS on tokens: the token after project/building/developing or
\* after 'working on'. No text of the model holds a ~name or a #name.
ProjectsOf(text) ==
    {text[k + 1] : k \in {j \in 1..(Len(text) - 1) :
                            text[j] \in {"project", "building", "developing"}}}
    \cup {text[k + 2] : k \in {j \in 1..(Len(text) - 2) :
                            text[j] = "working" /\ text[j + 1] = "on"}}

\* TASK_PATTERNS need a '?', a '.' or a ':' and no text of the model has one
TasksOf(text) == {}

\* sorted(list(entities)) for the entity names of the model
EntityOrder == <<"Bill", "the">>
SortedEntities(S) == SelectSeq(EntityOrder, LAMBDA x : x \in S)

\* all_entities: people, then projects, then tasks
AllEntities(context) ==
    SortedEntities(PeopleOf(Words(context)))
        \o SortedEntities(ProjectsOf(Words(context)))
        \o SortedEntities(TasksOf(Words(context)))

\* _extract_temporal: the first term of TEMPORAL_PATTERNS found in the lowered
\* text, as a number of days; NULL when there is none. The terms measured in
\* hours occur in no text of the model.
ExtractTemporal(lower) ==
    IF HasPhrase(lower, <<"yesterday">>) THEN 1
    ELSE IF HasPhrase(lower, <<"last", "week">>) THEN 7
    ELSE IF HasPhrase(lower, <<"last", "month">>) THEN 30
    ELSE IF HasPhrase(lower, <<"recently">>) THEN 3
    ELSE IF HasPhrase(lower, <<"today">>) THEN 0
    ELSE NULL

\* the SurfacedMemory built from a row; tier stands for its reason and tags
SurfacedRow(r, relevance, confidence, tier) ==
    [id |-> r.id, content |-> r.content, relevance |-> relevance,
     confidence |-> confidence, tier |-> tier]

\* a selection that does not look at the ids seen before
AnyCandidates(rows, seen, floor) ==
    SelectSeq(rows, LAMBDA r : r.relevance > floor)

\* the rows a tier appends: those not seen before and more relevant than floor
NewCandidates(rows, seen, floor) ==
    SelectSeq(rows, LAMBDA r : r.id \notin seen /\ r.relevance > floor)

EntityRows(cand) ==
    [k \in 1..Len(cand) |-> SurfacedRow(cand[k], cand[k].relevance, ENTITY_CONFIDENCE,
                                        "entity")]

SemanticRows(cand) ==
    [k \in 1..Len(cand) |-> SurfacedRow(cand[k], cand[k].relevance, SEMANTIC_CONFIDENCE,
                                        "semantic")]

TemporalRows(cand) ==
    [k \in 1..Len(cand) |-> SurfacedRow(cand[k], TEMPORAL_RELEVANCE, TEMPORAL_CONFIDENCE,
                                        "temporal")]

\* one self.mem.search of a tier and what it appends
AfterSearch(st, rows, added) ==
    [mems |-> RecordAccessAll(st.mems, rows, now),
     surfaced |-> st.surfaced \o added,
     seen |-> st.seen \cup RowIds(added),
     returned |-> st.returned \cup RowIds(rows)]

\* tier 1: search(entity, limit=2) for every entity in turn
RECURSIVE EntityTier(_, _)
EntityTier(st, entities) ==
    IF entities = <<>> THEN st
    ELSE EntityTier(
            AfterSearch(st,
                SearchResults(st.mems, embeddings, Head(entities), ENTITY_SEARCH_LIMIT, 0),
                EntityRows(NewCandidates(
                    SearchResults(st.mems, embeddings, Head(entities), ENTITY_SEARCH_LIMIT, 0),
                    st.seen, ENTITY_MIN_RELEVANCE))),
            Tail(entities))

\* tier 2: search(context, limit - len(surfaced) + 2) while slots are free
SemanticTier(st, context, limit) ==
    IF Len(st.surfaced) < limit
    THEN AfterSearch(st,
            SearchResults(st.mems, embeddings, context, limit - Len(st.surfaced) + 2, 0),
            SemanticRows(NewCandidates(
                SearchResults(st.mems, embeddings, context, limit - Len(st.surfaced) + 2, 0),
                st.seen, SEMANTIC_MIN_RELEVANCE)))
    ELSE st

\* the rows _surface_by_temporal builds from the selected ids
TemporalSelected(mems, ids) ==
    [k \in 1..Len(ids) |->
        [id |-> ids[k], content |-> mems[ids[k]].content, relevance |-> TEMPORAL_RELEVANCE]]

\* _surface_by_temporal: the rows created after now - delta, newest first. The
\* clock has moved on since every row was written, so a row written exactly
\* delta days ago is already too old.
SurfaceByTemporal(mems, delta, limit) ==
    TemporalSelected(mems,
        Take(OrderRows({i \in DOMAIN mems : mems[i].created_at > now - delta},
                       [i \in DOMAIN mems |-> 0 - FineTime(mems[i].created_at, i)]),
             limit))

\* tier 3: a direct SELECT, no search and no access tracking
TemporalTier(st, delta, limit) ==
    IF delta # NULL /\ Len(st.surfaced) < limit
    THEN [st EXCEPT
            !.surfaced = @ \o TemporalRows(SelectSeq(
                SurfaceByTemporal(st.mems, delta, limit - Len(st.surfaced)),
                LAMBDA r : r.id \notin st.seen)),
            !.seen = @ \cup RowIds(SurfaceByTemporal(st.mems, delta, limit - Len(st.surfaced)))]
    ELSE st

\* content[:50].lower(): the tokens of the first 50 characters, each with the
\* number of its characters that are kept
RECURSIVE ContentKey(_, _)
ContentKey(lower, n) ==
    IF lower = <<>> \/ n <= 0 THEN <<>>
    ELSE IF Len(Head(lower)) >= n THEN <<[w |-> Head(lower), n |-> n]>>
    ELSE <<[w |-> Head(lower), n |-> Len(Head(lower))]>>
            \o ContentKey(Tail(lower), n - Len(Head(lower)) - 1)

SameKey(a, b) ==
    ContentKey(Lower(Words(a)), CONTENT_KEY_LENGTH)
        = ContentKey(Lower(Words(b)), CONTENT_KEY_LENGTH)

\* a flagging that marks a candidate only when an earlier one has its key
FlagLaterOnly(surfaced, k) ==
    \E j \in 1..(k - 1) : SameKey(surfaced[j].content, surfaced[k].content)

\* a candidate is flagged when an earlier one has its key; the first candidate
\* of a key is flagged by each later one
Flagged(surfaced, k) ==
    \E j \in 1..Len(surfaced) : j # k /\ SameKey(surfaced[j].content, surfaced[k].content)

\* _detect_contradictions
DetectContradictions(surfaced) ==
    [k \in 1..Len(surfaced) |->
        [id |-> surfaced[k].id, content |-> surfaced[k].content,
         relevance |-> surfaced[k].relevance, confidence |-> surfaced[k].confidence,
         tier |-> surfaced[k].tier, may_contradict |-> Flagged(surfaced, k)]]

\* surfaced.sort(key = (relevance, confidence), reverse = True): a stable sort
RECURSIVE SortSurfaced(_)
SortSurfaced(surfaced) ==
    IF surfaced = <<>> THEN <<>>
    ELSE LET k == CHOOSE i \in 1..Len(surfaced) : \A j \in 1..Len(surfaced) :
                      \/ surfaced[i].relevance > surfaced[j].relevance
                      \/ /\ surfaced[i].relevance = surfaced[j].relevance
                         /\ \/ surfaced[i].confidence > surfaced[j].confidence
                            \/ surfaced[i].confidence = surfaced[j].confidence /\ i <= j
         IN <<surfaced[k]>> \o SortSurfaced(SubSeq(surfaced, 1, k - 1)
                                            \o SubSeq(surfaced, k + 1, Len(surfaced)))

SurfaceResult(surfaced, limit, min_confidence) ==
    Take(SortSurfaced(SelectSeq(DetectContradictions(surfaced),
                                LAMBDA c : c.confidence >= min_confidence)), limit)

SurfaceStart == [mems |-> memories, surfaced |-> <<>>, seen |-> {}, returned |-> {}]

SurfaceReturning(context, limit, min_confidence, st) ==
    /\ n_search < MaxSearches
    /\ n_search' = n_search + 1
    /\ memories' = st.mems
    /\ returned' = returned \cup st.returned
    /\ last' = Call("surface", <<context, limit, min_confidence>>,
                    SurfaceResult(st.surfaced, limit, min_confidence), FALSE,
                    [surfaced |-> st.surfaced, accessed |-> st.returned])
    /\ UNCHANGED <<next_id, embeddings, edges, edge_seq, now, emb_avail, vec_avail,
                   identity, active_context, n_merge>>

\* MemorySurfacer.surface
Surface(context, limit, min_confidence) ==
    SurfaceReturning(context, limit, min_confidence,
        TemporalTier(SemanticTier(EntityTier(SurfaceStart, AllEntities(context)),
                                  context, limit),
                     ExtractTemporal(Lower(Words(context))), limit))

\* ---------------------------------------------------------------- claims
\* every call leaves its record in last
ConsolidateStep == last'.op = "consolidate"
UpdatesInto(i) == {e \in edges : e.relation = "updates" /\ e.target_id = i}

\* C1: the output of search_with_graph(prefer_latest=True) contains no record
\* whose is_latest is false.
C1_OutputIsLatest ==
    (last.op = "search_with_graph" /\ last.args[3])
        => \A k \in DOMAIN last.ret :
              last.ret[k].id \in DOMAIN memories => memories[last.ret[k].id].is_latest

\* C2: every persisted 'updates' edge whose target record exists has a target
\* with is_latest = false.
C2_UpdatesTargetNotLatest ==
    \A e \in edges :
        (e.relation = "updates" /\ e.target_id \in DOMAIN memories)
            => ~memories[e.target_id].is_latest

\* C3 as stated: a record has is_latest = false only if some persisted
\* 'updates' edge has it as its target.
C3_NotLatestOnlyIfUpdated ==
    \A i \in DOMAIN memories : ~memories[i].is_latest => UpdatesInto(i) # {}

\* C3 amended: a record has is_latest = false only if some persisted 'updates'
\* edge has it as its target or an expiry time has been set on it.
C3_NotLatestOnlyIfUpdatedOrExpiring ==
    \A i \in DOMAIN memories :
        ~memories[i].is_latest => (UpdatesInto(i) # {} \/ memories[i].expires_at # NULL)

\* expire_memories has retired a record that no 'updates' edge targets
C3_Witness ==
    /\ last.op = "expire_memories" /\ last.ret > 0
    /\ \E i \in DOMAIN memories :
          /\ ~memories[i].is_latest /\ UpdatesInto(i) = {}
          /\ memories[i].expires_at # NULL /\ memories[i].expires_at < now

\* C4: once detection returns with a pair classified 'updates', the updates
\* edge from the new record to the existing one is persisted and the existing
\* record's is_latest is false.
C4_DetectedUpdatePersisted ==
    last.op = "detect_relationships"
        => \A k \in DOMAIN last.ret :
              last.ret[k].relation = "updates"
                  => /\ \E e \in edges : SameTriple(e, last.ret[k].source_id,
                                                    last.ret[k].target_id, "updates")
                     /\ ~memories[last.ret[k].target_id].is_latest

\* C5: the edge table holds at most one edge per (source_id, target_id,
\* relation) triple; add_edge on an existing triple leaves one edge carrying
\* the new confidence, metadata and created_at, and does not report a failure
\* (-1).
C5_OneEdgePerTriple ==
    /\ \A e, f \in edges : SameTriple(e, f.source_id, f.target_id, f.relation) => e = f
    /\ last.op = "add_edge"
          => /\ last.ret # -1
             /\ \E e \in edges :
                   /\ SameTriple(e, last.args[1], last.args[2], last.args[3])
                   /\ e.id = last.ret
                   /\ e.confidence = last.args[4]
                   /\ e.metadata = EncodeMetadata(last.args[5])
                   /\ e.created_at = now

\* add_edge has rewritten an edge that carried another confidence, other
\* metadata and another created_at
C5_Witness ==
    /\ last.op = "add_edge"
    /\ \E o \in last.log.replaced :
          /\ o.confidence # last.args[4]
          /\ o.metadata # EncodeMetadata(last.args[5])
          /\ o.created_at # now
    /\ Cardinality(edges) = 1

\* C6: with the vector index available a real prune pass deletes exactly the
\* archive records with salience < 0.4, created more than 7 days before the
\* pass and never accessed, together with their embeddings; it removes no
\* record younger than 7 days and no record a search has ever returned.
C6_PruneExact ==
    [][(ConsolidateStep /\ vec_avail /\ last'.args.prune /\ ~last'.args.dry_run)
        => LET old == {i \in DOMAIN memories :
                          /\ memories[i].layer = "archive"
                          /\ memories[i].salience < 40
                          /\ now - memories[i].created_at > 7
                          /\ memories[i].access_count = 0}
               merged == {last'.log.events[k].remove_id : k \in DOMAIN last'.log.events}
           IN /\ ~last'.raised
              /\ last'.log.pruned_ids = old
              /\ last'.ret.pruned = Cardinality(old)
              /\ old \cap DOMAIN memories' = {}
              /\ old \cap embeddings' = {}
              /\ DOMAIN memories \ DOMAIN memories' \subseteq old \cup merged
              /\ ~last'.args.merge =>
                    /\ DOMAIN memories' = DOMAIN memories \ old
                    /\ embeddings' = embeddings \ old
                    /\ \A i \in DOMAIN memories' : memories'[i] = memories[i]
              /\ \A i \in last'.log.pruned_ids :
                    /\ now - memories[i].created_at >= 7
                    /\ i \notin returned]_vars

\* a real prune pass has deleted a record and kept three kinds of low-salience
\* record: one that a search returned, one exactly 7 days old, or a fresh one
C6_Witness ==
    /\ last.op = "consolidate" /\ last.args.prune /\ ~last.args.dry_run
    /\ last.log.pruned_ids # {}
    /\ \E i \in DOMAIN memories :
          /\ memories[i].salience < 40
          /\ i \in returned \/ now - memories[i].created_at <= 7

\* C7: consolidate(dry_run=True) leaves the records, every field of every
\* record, the embeddings and the edges as they were.
C7_DryRunInert ==
    [][(ConsolidateStep /\ last'.args.dry_run)
        => /\ memories' = memories
           /\ embeddings' = embeddings
           /\ edges' = edges]_vars

\* C8: a dry run followed at once by a real run with the same switches reports
\* the same memories_before, pruned and merged counts in both runs, and the
\* dry run leaves the number of records unchanged.
C8_DryRunPredictsRealRun ==
    [][/\ (ConsolidateStep /\ last'.args.dry_run /\ ~last'.raised)
            => Cardinality(DOMAIN memories') = Cardinality(DOMAIN memories)
       /\ (/\ last.op = "consolidate" /\ last.args.dry_run /\ ~last.raised
           /\ ConsolidateStep /\ ~last'.args.dry_run /\ ~last'.raised
           /\ last'.args.prune = last.args.prune
           /\ last'.args.merge = last.args.merge)
            => /\ last'.ret.memories_before = last.ret.memories_before
               /\ last'.ret.pruned = last.ret.pruned
               /\ last'.ret.merged = last.ret.merged]_vars

\* C9: every deletion of a merge pass removes the lower-salience record of a
\* pair matched above 0.85 relevance, and the other record of the pair (the
\* first-compared one on a tie) is in the store at that moment and has its
\* access_count incremented.
C9_MergeKeepsPartner ==
    (last.op = "consolidate" /\ ~last.raised /\ ~last.args.dry_run)
        => \A k \in DOMAIN last.log.events :
              LET e == last.log.events[k]
              IN e.remove_present =>
                    /\ e.relevance > 85
                    /\ e.remove_salience <= e.keep_salience
                    /\ (e.remove_salience = e.keep_salience => e.keep_id = e.mem1)
                    /\ e.keep_present
                    /\ e.keep_count_after = e.keep_count_before + 1

\* C10: with the embedding model or the vector index unavailable no operation
\* raises, and stats reports the capabilities as they are.
C10_DegradedNeverRaises ==
    ~(emb_avail /\ vec_avail)
        => /\ ~last.raised
           /\ last.op = "stats"
                 => /\ last.ret.embeddings_available = emb_avail
                    /\ last.ret.vector_search_available = vec_avail

\* C11: the deletions of one real merge pass are committed as a single batch:
\* no store state committed during the pass lacks some but not all of the
\* records the pass deletes, and none holds an embedding without its record.
C11_MergeBatchAtomic ==
    (last.op = "consolidate" /\ ~last.raised /\ ~last.args.dry_run)
        => LET deleted == {last.log.events[k].remove_id : k \in DOMAIN last.log.events}
                              \ DOMAIN memories
           IN \A k \in DOMAIN last.log.commits :
                 /\ deleted \cap last.log.commits[k].ids \in {{}, deleted}
                 /\ last.log.commits[k].embs \subseteq last.log.commits[k].ids

\* C12: expire_memories clears is_latest on exactly the records whose
\* expires_at is set, has passed, and that were latest; it returns their
\* number and changes nothing else; a second call right after it changes
\* nothing and returns 0.
C12_ExpireExact ==
    [][last'.op = "expire_memories"
         => LET due == {i \in DOMAIN memories :
                           /\ memories[i].expires_at # NULL
                           /\ memories[i].expires_at < now
                           /\ memories[i].is_latest}
            IN /\ DOMAIN memories' = DOMAIN memories
               /\ \A i \in DOMAIN memories :
                     memories'[i] = IF i \in due
                                    THEN [memories[i] EXCEPT !.is_latest = FALSE]
                                    ELSE memories[i]
               /\ last'.ret = Cardinality(due)
               /\ UNCHANGED <<next_id, embeddings, edges, edge_seq>>
               /\ last.op = "expire_memories"
                     => (memories' = memories /\ last'.ret = 0)]_vars

\* a sweep that expired one record and left a latest one alone
C12_Witness ==
    /\ last.op = "expire_memories"
    /\ last.ret = 1
    /\ \E i, j \in DOMAIN memories :
          /\ ~memories[i].is_latest /\ memories[i].expires_at # NULL
          /\ memories[j].is_latest /\ memories[j].expires_at # NULL

\* C13: get_memory_chain returns, for every edge set (cycles and self-loops
\* included), a chain that starts with the queried id, follows one stored
\* edge of the relation per step, and has at most max_depth + 1 ids.
C13_ChainBounded ==
    last.op = "get_memory_chain"
        => /\ Len(last.ret) >= 1
           /\ last.ret[1] = last.args.memory_id
           /\ Len(last.ret) - 1 <= last.args.max_depth
           /\ \A k \in 1..(Len(last.ret) - 1) :
                 \E e \in edges : /\ e.source_id = last.ret[k]
                                  /\ e.target_id = last.ret[k + 1]
                                  /\ e.relation = last.args.relation

\* a walk around a cycle or a self-loop that the default depth cuts off
C13_Witness ==
    /\ last.op = "get_memory_chain"
    /\ last.args.max_depth = DEFAULT_MAX_DEPTH
    /\ Len(last.ret) = DEFAULT_MAX_DEPTH + 1
    /\ \E k \in 2..Len(last.ret) : last.ret[k] = last.ret[1]

\* C14: surface never returns a superseded record: every candidate of its
\* result has is_latest = true.
C14_SurfaceOnlyLatest ==
    last.op = "surface"
        => \A k \in DOMAIN last.ret :
              last.ret[k].id \in DOMAIN memories => memories[last.ret[k].id].is_latest

\* C15: a search adds exactly 1 to access_count and sets accessed_at on each
\* record of the list it returns and leaves every other record, and every
\* other field, as it was; on an empty store it returns the empty list and
\* changes nothing.
C15_SearchAccessFrame ==
    [][last'.op = "search"
         => /\ Cardinality(RowIds(last'.ret)) = Len(last'.ret)
            /\ RowIds(last'.ret) \subseteq DOMAIN memories
            /\ DOMAIN memories' = DOMAIN memories
            /\ \A i \in DOMAIN memories :
                  memories'[i] = IF i \in RowIds(last'.ret)
                                 THEN [memories[i] EXCEPT !.access_count = @ + 1,
                                                          !.accessed_at = now]
                                 ELSE memories[i]
            /\ UNCHANGED <<next_id, embeddings, edges, edge_seq>>
            /\ DOMAIN memories = {} => (last'.ret = <<>> /\ memories' = memories)]_vars

\* a search that returned two records and left a third one out
C15_Witness ==
    /\ last.op = "search"
    /\ Len(last.ret) = 2
    /\ \A k \in DOMAIN last.ret : memories[last.ret[k].id].access_count = 1
    /\ \E i \in DOMAIN memories : i \notin RowIds(last.ret) /\ memories[i].access_count = 0

\* C16: in vector mode, add(c) followed at once by search(c) returns the record
\* just added, first or as relevant as the first result.
C16_AddedIsFoundFirst ==
    [][(/\ VectorMode
        /\ last.op = "add"
        /\ last'.op = "search"
        /\ last'.args = <<last.args[1], DEFAULT_LIMIT, 0>>)
         => \E k \in DOMAIN last'.ret :
               /\ last'.ret[k].id = last.ret
               /\ last'.ret[k].relevance = last'.ret[1].relevance]_vars

\* C17: the list search returns is in ascending distance in vector mode and in
\* descending created_at in keyword mode, and in both modes rows that tie on
\* that key are in descending created_at.
C17_ResultOrder ==
    last.op = "search"
        => \A k, l \in DOMAIN last.ret :
              k < l =>
                 IF VectorMode
                 THEN \/ Dist(last.ret[k].content, last.args[1])
                            < Dist(last.ret[l].content, last.args[1])
                      \/ /\ Dist(last.ret[k].content, last.args[1])
                               = Dist(last.ret[l].content, last.args[1])
                         /\ FineTime(last.ret[k].created_at, last.ret[k].id)
                               >= FineTime(last.ret[l].created_at, last.ret[l].id)
                 ELSE FineTime(last.ret[k].created_at, last.ret[k].id)
                         >= FineTime(last.ret[l].created_at, last.ret[l].id)

\* C18: the relevance of every result is 1 - distance in vector mode, whatever
\* the distance, and 0.5 in keyword mode, so that the relevances of the list
\* never increase from one result to the next.
C18_RelevanceIsOneMinusDistance ==
    last.op = "search"
        => /\ \A k \in DOMAIN last.ret :
                 last.ret[k].relevance =
                    IF VectorMode THEN 100 - Dist(last.ret[k].content, last.args[1])
                    ELSE 100 - KEYWORD_DISTANCE
           /\ \A k, l \in DOMAIN last.ret :
                 k < l => last.ret[k].relevance >= last.ret[l].relevance

\* C19: a set_identity or set_active call leaves its store with exactly one
\* entry for the key written, carrying the value written, and every other
\* entry, the other store and the memory records as they were; a get with a
\* key returns exactly the entry of that key, a get without a key all entries.
C19_KeyValueStores ==
    [][/\ last'.op = "set_identity"
            => /\ {r \in identity' : r.key = last'.args.key}
                     = {[key |-> last'.args.key, value |-> last'.args.value,
                         updated_at |-> now]}
               /\ {r \in identity' : r.key # last'.args.key}
                     = {r \in identity : r.key # last'.args.key}
               /\ UNCHANGED <<active_context, store>>
       /\ last'.op = "set_active"
            => /\ {r \in active_context' : r.key = last'.args.key}
                     = {[key |-> last'.args.key, value |-> last'.args.value,
                         updated_at |-> now]}
               /\ {r \in active_context' : r.key # last'.args.key}
                     = {r \in active_context : r.key # last'.args.key}
               /\ UNCHANGED <<identity, store>>
       /\ last'.op = "get_identity"
            => /\ last'.ret = {<<r.key, r.value>> :
                                  r \in {x \in identity :
                                            last'.args.given => x.key = last'.args.key}}
               /\ UNCHANGED <<identity, active_context, store>>
       /\ last'.op = "get_active"
            => /\ last'.ret = {<<r.key, r.value>> :
                                  r \in {x \in active_context :
                                            last'.args.given => x.key = last'.args.key}}
               /\ UNCHANGED <<identity, active_context, store>>]_vars

\* C20: for every content, declared type and caller-supplied base salience,
\* the salience estimate_salience and classify_and_score return is in [0, 1].
C20_SalienceInUnitInterval ==
    /\ last.op = "estimate_salience" => (0 <= last.ret /\ last.ret <= 100)
    /\ last.op = "classify_and_score"
          => (0 <= last.ret.salience /\ last.ret.salience <= 100)

\* C21: every record ingested through a front end carries the layer that
\* classify_layer assigns to its content and declared type.
C21_LayerIsClassified ==
    \A i \in DOMAIN memories :
        memories[i].layer = ClassifyLayer(Words(memories[i].content), memories[i].memory_type)

SeqRange(seq) == {seq[k] : k \in 1..Len(seq)}
FoundAbove(rows, floor) == {r.id : r \in {x \in SeqRange(rows) : x.relevance > floor}}

\* the ids the entity tier finds: a search for an entity of the context
\* returns them with relevance above 0.4
EntityFound(mems, context) ==
    UNION {FoundAbove(SearchResults(mems, embeddings, e, ENTITY_SEARCH_LIMIT, 0),
                      ENTITY_MIN_RELEVANCE) : e \in SeqRange(AllEntities(context))}

\* the ids the semantic tier finds when e candidates are there already
SemanticFound(mems, context, limit, e) ==
    IF e < limit
    THEN FoundAbove(SearchResults(mems, embeddings, context, limit - e + 2, 0),
                    SEMANTIC_MIN_RELEVANCE)
    ELSE {}

TierConfidence(tier) ==
    CASE tier = "entity" -> ENTITY_CONFIDENCE
      [] tier = "semantic" -> SEMANTIC_CONFIDENCE
      [] tier = "temporal" -> TEMPORAL_CONFIDENCE

FirstTierWins(ret, entity_found, semantic_found) ==
    /\ Cardinality(RowIds(ret)) = Len(ret)
    /\ \A k \in DOMAIN ret :
          /\ ret[k].id \in entity_found => ret[k].tier = "entity"
          /\ ret[k].id \in semantic_found \ entity_found => ret[k].tier = "semantic"
          /\ ret[k].confidence = TierConfidence(ret[k].tier)

\* C22: no id appears twice in the result of surface, and a record that more
\* than one tier finds carries the confidence and tags of the first of them,
\* in the order entity (0.85), semantic (0.65), temporal (0.4).
C22_FirstTierWins ==
    [][last'.op = "surface"
         => \A ef \in {EntityFound(memories, last'.args[1])} :
            \A sf \in {SemanticFound(memories, last'.args[1], last'.args[2],
                                     Cardinality(ef))} :
                FirstTierWins(last'.ret, ef, sf)]_vars

\* a result with a record that the entity and the semantic tier both find,
\* next to records of the semantic and of the temporal tier
C22_Witness ==
    /\ last.op = "surface"
    /\ VectorMode
    /\ \E k \in DOMAIN last.ret :
          /\ last.ret[k].tier = "entity"
          /\ 100 - Dist(last.ret[k].content, last.args[1]) > SEMANTIC_MIN_RELEVANCE
    /\ \E k \in DOMAIN last.ret : last.ret[k].tier = "semantic"
    /\ \E k \in DOMAIN last.ret : last.ret[k].tier = "temporal"

\* C23: in the result of surface, any two candidates whose contents agree
\* case-insensitively on their first 50 characters both have
\* may_contradict = true, whatever the size of the group.
C23_SharedPrefixFlagged ==
    last.op = "surface"
        => \A j \in DOMAIN last.ret : \A k \in DOMAIN last.ret :
              (j # k /\ SameKey(last.ret[j].content, last.ret[k].content))
                  => last.ret[j].may_contradict /\ last.ret[k].may_contradict

\* a result with a group of three that agree on the key, two of them on the
\* first 50 characters only and two of them up to case
C23_Witness ==
    /\ last.op = "surface"
    /\ \E i \in DOMAIN last.ret : \E j \in DOMAIN last.ret : \E k \in DOMAIN last.ret :
          /\ i < j /\ j < k
          /\ SameKey(last.ret[i].content, last.ret[j].content)
          /\ SameKey(last.ret[j].content, last.ret[k].content)
          /\ last.ret[i].content # last.ret[j].content
          /\ last.ret[i].may_contradict /\ last.ret[k].may_contradict

\* C24: every record in the result of surface, whichever tier produced it,
\* has had its access_count incremented and its accessed_at set during that
\* call.
C24_SurfacedIsAccessed ==
    [][last'.op = "surface"
         => \A k \in DOMAIN last'.ret :
               /\ memories'[last'.ret[k].id].access_count
                      > memories[last'.ret[k].id].access_count
               /\ memories'[last'.ret[k].id].accessed_at = now]_vars

TierIds(rows, tier) == {r.id : r \in {x \in SeqRange(rows) : x.tier = tier}}

\* C27: when the entity tier of surface found e <= limit candidates, all e of
\* them are in the result and at most limit - e candidates of the semantic
\* tier are returned.
C27_SemanticFillsFreeSlots ==
    (last.op = "surface"
        /\ Cardinality(TierIds(last.log.surfaced, "entity")) <= last.args[2])
        => /\ TierIds(last.log.surfaced, "entity") \subseteq RowIds(last.ret)
           /\ Cardinality(TierIds(last.ret, "semantic"))
                 <= last.args[2] - Cardinality(TierIds(last.log.surfaced, "entity"))

\* the seven-rule priority table over the similarity and the signal predicates
RuleTable(similarity, contradiction, length_ok, shares, extension, new_info, overlap_ok) ==
    IF similarity >= 72 /\ contradiction THEN "updates"
    ELSE IF similarity >= 85 /\ length_ok THEN "extends"
    ELSE IF similarity >= 65 /\ contradiction /\ shares THEN "updates"
    ELSE IF similarity >= 65 /\ extension THEN "extends"
    ELSE IF similarity >= 65 /\ shares /\ new_info THEN "extends"
    ELSE IF 45 <= similarity /\ similarity < 65 /\ overlap_ok THEN "derives"
    ELSE "none"

\* the signal predicates of a pair, as the classification evaluates them
LowerOf(c) == Lower(Words(c))
Contradiction(new, existing) == HasContradictionSignals(LowerOf(new), LowerOf(existing))
LengthOk(new, existing) == 2 * CharLen(Words(new)) > CharLen(Words(existing))

\* C25: whatever the similarity and the signals of the pair,
\* _classify_relationship returns the relation of the first matching rule of
\* the seven-rule table, thresholds inclusive; it returns no relation below
\* similarity 0.45, 'derives' only for 0.45 <= similarity < 0.65 and
\* 'updates' only when contradiction signals are present.
C25_FirstMatchingRule ==
    last.op = "classify_relationship"
        => /\ last.ret = RuleTable(last.args[3],
                            Contradiction(last.args[1], last.args[2]),
                            LengthOk(last.args[1], last.args[2]),
                            SharesSubject(LowerOf(last.args[1]), LowerOf(last.args[2])),
                            HasExtensionSignals(LowerOf(last.args[1]), LowerOf(last.args[2])),
                            HasNewInformation(LowerOf(last.args[1]), LowerOf(last.args[2])),
                            HasInferrableConnection(LowerOf(last.args[1]),
                                                    LowerOf(last.args[2])))
           /\ last.args[3] < 45 => last.ret = "none"
           /\ last.ret = "derives" => (45 <= last.args[3] /\ last.args[3] < 65)
           /\ last.ret = "updates" => Contradiction(last.args[1], last.args[2])

\* a pair whose words overlap by a quarter is classified at similarity 0.45
C25_Witness ==
    /\ last.op = "classify_relationship"
    /\ last.args[3] = 45
    /\ last.ret = "derives"

\* the subjects two texts as stored have in common
SharedCapitalized(new, existing) ==
    WordSet(Words(new)) \cap WordSet(Words(existing)) \cap CapitalizedTokens
SharedKnown(new, existing) ==
    {ph \in KnownEntities : HasPhrase(LowerOf(new), ph) /\ HasPhrase(LowerOf(existing), ph)}

\* C26: during classification a pair of texts with a capitalized token in
\* common, or with a known entity in common, counts as sharing a subject:
\* the relation returned is the one the rule table gives with the
\* shared-subject signal present, so rules 3 and 5 fire for the pair.
C26_SharedSubjectCounts ==
    (/\ last.op = "classify_relationship"
     /\ \/ SharedCapitalized(last.args[1], last.args[2]) # {}
        \/ SharedKnown(last.args[1], last.args[2]) # {})
        => last.ret = RuleTable(last.args[3],
                         Contradiction(last.args[1], last.args[2]),
                         LengthOk(last.args[1], last.args[2]),
                         TRUE,
                         HasExtensionSignals(LowerOf(last.args[1]), LowerOf(last.args[2])),
                         HasNewInformation(LowerOf(last.args[1]), LowerOf(last.args[2])),
                         HasInferrableConnection(LowerOf(last.args[1]),
                                                 LowerOf(last.args[2])))

\* C28: once a record's is_latest is false it stays false in every later
\* state: no add, add_edge, set_expiry, expire_memories, search, surface or
\* consolidate sets it back to true, even after its expiry is moved to the
\* future or the record that superseded it is pruned or merged away.
C28_NotLatestForever ==
    [][\A i \in DOMAIN memories \cap DOMAIN memories' :
          ~memories[i].is_latest => ~memories'[i].is_latest]_vars

\* a superseded record whose expiry lies in the future and whose superseding
\* record is gone from the store
C28_Witness ==
    \E i \in DOMAIN memories :
        /\ ~memories[i].is_latest
        /\ memories[i].expires_at # NULL /\ memories[i].expires_at > now
        /\ UpdatesInto(i) # {}
        /\ \A e \in UpdatesInto(i) :
              e.source_id < next_id /\ e.source_id \notin DOMAIN memories

\* C29: in every reachable state both endpoints of every persisted edge are
\* ids of records present in the store.
C29_EdgeEndpointsExist ==
    \A e \in edges : e.source_id \in DOMAIN memories /\ e.target_id \in DOMAIN memories

\* C30: a consolidate that is not a dry run reports counts that account for
\* every deletion: memories_after = memories_before - pruned - merged.
C30_CountsAccountForDeletions ==
    (last.op = "consolidate" /\ ~last.args.dry_run /\ ~last.raised)
        => last.ret.memories_after
              = last.ret.memories_before - last.ret.pruned - last.ret.merged

\* ------------------------------------------------------- specifications
Ids == 1..MaxGraphRecords
\* the ids of the records stored so far and the id the next record will get
KnownIds == {i \in Ids : i <= next_id}
Relations == {"updates", "extends"}
\* confidence and metadata of an edge write
EdgeInputs == {<<500, "none">>, <<900, "note">>}
ExpiryDays == {1}
Queries == {"price10", "dog"}
AddInputs == {<<"price10", 30>>, <<"price20", 50>>, <<"price20", 30>>}
GraphAddInputs == {<<"price10", 30>>, <<"price20", 50>>}
LatestAddInputs == {<<"price10", 30>>}

InitAvailable == Init /\ emb_avail /\ vec_avail

\* the relationship graph: ingestion, edges, graph-enhanced search over candidate
\* lists, and detection for a stored record against the rows a search for its
\* content yields
Next ==
    \/ next_id <= MaxGraphRecords /\ \E a \in GraphAddInputs : Add(a[1], a[2])
    \/ edge_seq <= MaxEdgeWrites /\ \E src, tgt \in Ids, r \in Relations : AddEdge(src, tgt, r, 900, "none")
    \/ \E b \in BaseLists(memories) : SearchWithGraph(b, TRUE, TRUE)
    \/ \E i \in DOMAIN memories :
          DetectRelationships(i, memories[i].content,
              SearchResults(memories, embeddings, memories[i].content, DEFAULT_LIMIT, 0))

Spec == InitAvailable /\ [][Next]_vars

\* the edge table: edges written and rewritten as the days pass
NextEdges ==
    \/ Tick(PRUNE_MIN_AGE_DAYS + 1)
    \/ next_id <= MaxGraphRecords /\ \E a \in LatestAddInputs : Add(a[1], a[2])
    \/ edge_seq <= MaxEdgeWrites
          /\ \E src, tgt \in KnownIds, r \in Relations, x \in EdgeInputs :
                AddEdge(src, tgt, r, x[1], x[2])

SpecEdges == InitAvailable /\ [][NextEdges]_vars

\* chains of edges, walked to several depths
MaxDepths == {0, 1, DEFAULT_MAX_DEPTH}
\* the ids the chains run over
ChainIds == {1, 2}

NextChain ==
    \/ next_id <= MaxGraphRecords /\ \E a \in LatestAddInputs : Add(a[1], a[2])
    \/ edge_seq <= MaxEdgeWrites
          /\ \E src, tgt \in KnownIds \cap ChainIds :
                AddEdge(src, tgt, "updates", 900, "none")
    \/ \E i \in KnownIds \cap ChainIds, r \in Relations, d \in MaxDepths :
          GetMemoryChain(i, r, d)

SpecChain == InitAvailable /\ [][NextChain]_vars

\* surfacing over records some of which have been superseded
SurfaceLimits == {1, DEFAULT_LIMIT}

NextSurface ==
    \/ next_id <= MaxGraphRecords /\ \E a \in GraphAddInputs : Add(a[1], a[2])
    \/ edge_seq <= MaxLatestEdgeWrites
          /\ \E src, tgt \in KnownIds, r \in Relations : AddEdge(src, tgt, r, 900, "none")
    \/ \E c \in Queries \cup {"price20"}, l \in SurfaceLimits :
          Surface(c, l, DEFAULT_MIN_CONFIDENCE)

SpecSurface == InitAvailable /\ [][NextSurface]_vars

\* the life cycle of is_latest: updates edges, expiry and pruning
NextLatest ==
    \/ Tick(PRUNE_MIN_AGE_DAYS + 1)
    \/ next_id <= MaxGraphRecords /\ \E a \in LatestAddInputs : Add(a[1], a[2])
    \/ edge_seq <= MaxLatestEdgeWrites
          /\ \E src, tgt \in Ids, r \in Relations : AddEdge(src, tgt, r, 500, "none")
    \/ \E i \in Ids, d \in ExpiryDays : SetExpiry(i, now + d)
    \/ ExpireMemories
    \/ Consolidate(TRUE, FALSE, FALSE)

SpecLatest == InitAvailable /\ [][NextLatest]_vars

\* every operation that writes the store, over records that supersede one
\* another, expire, and are pruned or merged away
\* the first record is kept by pruning, the second one is pruned once old
LifeAddInput(id) == IF id = 1 THEN <<"price10", 50>> ELSE <<"price20", 30>>

\* the ids of the two records
LifeIds == {1, 2}

NextLife ==
    \/ Tick(PRUNE_MIN_AGE_DAYS + 1)
    \/ next_id \in LifeIds /\ Add(LifeAddInput(next_id)[1], LifeAddInput(next_id)[2])
    \/ edge_seq <= MaxLatestEdgeWrites
          /\ \E src, tgt \in LifeIds :
                src # tgt /\ AddEdge(src, tgt, "updates", 500, "none")
    \/ \E i \in DOMAIN memories, d \in ExpiryDays : SetExpiry(i, now + d)
    \/ ExpireMemories
    \/ Search("price10", DEFAULT_LIMIT, 0)
    \/ Surface("price20", DEFAULT_LIMIT, DEFAULT_MIN_CONFIDENCE)
    \/ \E p, m \in BOOLEAN : (p \/ m) /\ Consolidate(p, m, FALSE)

SpecLife == InitAvailable /\ [][NextLife]_vars

\* pruning: ingestion, search and prune-only consolidation as the days pass
NextPrune ==
    \/ Tick(PRUNE_MIN_AGE_DAYS)
    \/ next_id <= MaxRecords /\ \E a \in AddInputs : Add(a[1], a[2])
    \/ \E q \in Queries : Search(q, DEFAULT_LIMIT, 0)
    \/ \E d \in BOOLEAN : Consolidate(TRUE, FALSE, d)

SpecPrune == InitAvailable /\ [][NextPrune]_vars

\* consolidation with merging
NextConsolidate ==
    \/ Tick(PRUNE_MIN_AGE_DAYS + 1)
    \/ next_id <= MaxRecords /\ \E a \in AddInputs : Add(a[1], a[2])
    \/ \E q \in Queries : Search(q, DEFAULT_LIMIT, 0)
    \/ \E p, m, d \in BOOLEAN : (p \/ m) /\ Consolidate(p, m, d)

SpecConsolidate == InitAvailable /\ [][NextConsolidate]_vars

\* search in both modes, with several limits and salience floors
SearchLimits == {1, DEFAULT_LIMIT}
MinSaliences == {0, 40}

NextSearch ==
    \/ Tick(PRUNE_MIN_AGE_DAYS + 1)
    \/ next_id <= MaxRecords /\ \E a \in AddInputs : Add(a[1], a[2])
    \/ \E q \in Texts, l \in SearchLimits, s \in MinSaliences : Search(q, l, s)

SpecSearch == Init /\ [][NextSearch]_vars

\* more records with one content than a search returns
TieAddInputs == {<<"price20", 30>>, <<"price10", 30>>}

NextTies ==
    \/ next_id <= MaxTieRecords /\ \E a \in TieAddInputs : Add(a[1], a[2])
    \/ \E q \in {"price20"} : Search(q, DEFAULT_LIMIT, 0)

SpecTies == InitAvailable /\ [][NextTies]_vars

\* the two key-value stores next to the memory records
Keys == {"", "name"}
Values == {"OldName", "NewName"}

NextKeyValue ==
    \/ next_id <= MaxGraphRecords /\ \E a \in LatestAddInputs : Add(a[1], a[2])
    \/ \E k \in Keys, v \in Values : SetIdentity(k, v)
    \/ \E k \in Keys, v \in Values : SetActive(k, v)
    \/ \E k \in Keys : GetIdentity(TRUE, k)
    \/ GetIdentity(FALSE, "")
    \/ \E k \in Keys : GetActive(TRUE, k)
    \/ GetActive(FALSE, "")

SpecKeyValue == InitAvailable /\ [][NextKeyValue]_vars

\* the classifier on texts of several lengths, types and base saliences
LongText(n) == [k \in 1..n |-> "word"]
ClassifyContents ==
    {<<"the", "price", "is", "$10">>,
     <<"Important", "decision", "never", "skip", "the", "rule">>,
     <<"my", "name", "is", "Bill">>,
     <<"currently", "working", "on", "the", "todo">>,
     LongText(31), LongText(61)}
MemoryTypes == {"none", "fact", "decision", "identity", "task", "preference"}
BaseSaliences == {-50, 0, 50, 100}

NextClassify ==
    \/ \E c \in ClassifyContents, t \in MemoryTypes, b \in BaseSaliences :
          EstimateSalienceCall(c, t, b)
    \/ \E c \in ClassifyContents, t \in MemoryTypes, b \in BaseSaliences :
          ClassifyAndScoreCall(c, t, b)

SpecClassify == InitAvailable /\ [][NextClassify]_vars

\* the classification of one pair of texts at one similarity
RelationTexts ==
    {"price10", "price20", "myname", "billprice", "Bill", "long1",
     "paris1", "paris2", "paris3", "alsobill", "billnow"}
Similarities == {0, 44, 45, 64, 65, 71, 72, 84, 85, 100}

NextRelation ==
    last.op = "none" /\ \E new \in RelationTexts, existing \in RelationTexts, similarity \in Similarities :
        ClassifyRelationshipCall(new, existing, similarity)

SpecRelation == InitAvailable /\ [][NextRelation]_vars

\* ingestion through the front ends
CaptureTexts == {"price10", "myname"}
CaptureTypes == {"fact", "identity", "task"}

NextCapture ==
    \/ next_id <= MaxGraphRecords
          /\ \E c \in CaptureTexts, t \in CaptureTypes, x \in Saliences : Capture(c, t, x)

SpecCapture == InitAvailable /\ [][NextCapture]_vars

\* surfacing through the entity, semantic and temporal tiers, in both modes
InitTiers == Init /\ emb_avail = vec_avail
TierAddInputs ==
    {<<"myname", 50>>, <<"price10", 30>>, <<"Price10", 30>>, <<"long1", 30>>, <<"long2", 30>>}
TierContexts == {"billprice", "billyesterday"}
TierLimits == {1, 2, DEFAULT_LIMIT}

NextTiers ==
    \/ n_search = 0 /\ Tick(PRUNE_MIN_AGE_DAYS + 1)
    \/ n_search = 0 /\ next_id <= MaxRecords /\ \E a \in TierAddInputs : Add(a[1], a[2])
    \/ n_search = 0 /\ \E c \in TierContexts, l \in TierLimits :
                            Surface(c, l, DEFAULT_MIN_CONFIDENCE)

SpecTiers == InitTiers /\ [][NextTiers]_vars

\* degraded capabilities: the embedding model or the vector index is missing
InitDegraded == Init /\ ~(emb_avail /\ vec_avail)

NextDegraded ==
    \/ Tick(PRUNE_MIN_AGE_DAYS + 1)
    \/ next_id <= MaxRecords /\ \E a \in AddInputs : Add(a[1], a[2])
    \/ \E q \in Queries : Search(q, DEFAULT_LIMIT, 0)
    \/ \E p, m, d \in BOOLEAN : (p \/ m) /\ Consolidate(p, m, d)
    \/ Stats

SpecDegraded == InitDegraded /\ [][NextDegraded]_vars
====
